---- MODULE Spec2Model ----
(***************************************************************************)
(* Row-span engine and focus controller of tui.grid.                       *)
(*                                                                         *)
(*   src/src/store/data.ts      createRawRow, createRowSpanMap, createData *)
(*   src/src/helper/rowSpan.ts  span queries, append / remove maintenance  *)
(*   src/src/dispatch/focus.ts  focus and editing transitions              *)
(*                                                                         *)
(* Row indices, column indices and offsets are 0-based as in the source;   *)
(* RowAt(data, i) reads data[i].  An access the source makes on an         *)
(* undefined value (a TypeError) is modelled as a thrown outcome that      *)
(* keeps the writes made before it.                                        *)
(***************************************************************************)
EXTENDS Integers, Sequences, FiniteSets, TLC

VARIABLES
    optData,    \* the option rows createData was given
    rawData,    \* data.rawData: the rows, in display order
    sortState,  \* data.sortState
    focus,      \* store.focus
    column,     \* store.column: the names of the hidden columns
    nextKey,    \* row key handed to the next appended row
    calls,      \* number of calls made so far
    last,       \* the last call made: its name and arguments
    pre,        \* rawData as it was when the last call was made
    ret,        \* what the last call returned
    thrown,     \* TRUE when the last call ended in a TypeError
    preFocus,   \* focus as it was when the last call was made
    log         \* the notifications raised and the writes made to focus by the last call

vars == <<optData, rawData, sortState, focus, column, nextKey, calls, last, pre, ret, thrown,
          preFocus, log>>

----------------------------------------------------------------------------
(* Bounds of the model *)

NumRows == 3
MaxSpan == 3
MaxDecl == 1
MaxCalls == 1
MaxEdits == 2
MaxResolves == 2
MaxReloadCalls == 3

(* The declared columns, in the order of visibleColumns *)
visibleColumns == <<"c1", "c2">>

ColumnNames == {visibleColumns[i] : i \in 1..Len(visibleColumns)}

----------------------------------------------------------------------------
(* Values *)

NoKey == -1

NoSpan == [mainRow |-> FALSE, mainRowKey |-> NoKey, count |-> 0, spanCount |-> 0]

EmptyRowSpanMap == [c \in ColumnNames |-> NoSpan]

NoRowSpan == [c \in ColumnNames |-> 0]

NoRow == [rowKey |-> NoKey, rowSpan |-> NoRowSpan, rowSpanMap |-> EmptyRowSpanMap,
          value |-> [c \in ColumnNames |-> NoKey], observable |-> FALSE]

NoRange == <<NoKey, NoKey>>

RowAt(data, i) == IF i >= 0 /\ i < Len(data) THEN data[i + 1] ELSE NoRow

isEmpty(rowSpanMap) == \A c \in ColumnNames : rowSpanMap[c] = NoSpan

findPropIndex(value, data) ==
    IF \E i \in 1..Len(data) : data[i].rowKey = value
    THEN (CHOOSE i \in 1..Len(data) :
              /\ data[i].rowKey = value
              /\ \A j \in 1..(i - 1) : data[j].rowKey # value) - 1
    ELSE -1

getSortedRange(range) ==
    IF range[1] > range[2] THEN <<range[2], range[1]>> ELSE range

----------------------------------------------------------------------------
(* Construction: src/src/store/data.ts *)

createRowSpan(mainRow, rowKey, count, spanCount) ==
    [mainRow |-> mainRow, mainRowKey |-> rowKey, count |-> count, spanCount |-> spanCount]

createMainRowSpanMap(rowSpan, rowKey) ==
    [c \in ColumnNames |->
        IF rowSpan[c] = 0 THEN NoSpan
        ELSE createRowSpan(TRUE, rowKey, rowSpan[c], rowSpan[c])]

createSubRowSpan(prevRowSpanMap) ==
    [c \in ColumnNames |->
        LET prevRowSpan == prevRowSpanMap[c] IN
        IF prevRowSpan # NoSpan /\ prevRowSpan.spanCount > 1 - prevRowSpan.count
        THEN createRowSpan(FALSE, prevRowSpan.mainRowKey,
                           IF prevRowSpan.count >= 0 THEN -1 ELSE prevRowSpan.count - 1,
                           prevRowSpan.spanCount)
        ELSE NoSpan]

createRowSpanMap(rowKey, rowSpan, prevRow) ==
    LET mainRowSpanMap == IF rowSpan # NoRowSpan
                          THEN createMainRowSpanMap(rowSpan, rowKey)
                          ELSE EmptyRowSpanMap
        subRowSpanMap == IF prevRow # NoRow /\ ~isEmpty(prevRow.rowSpanMap)
                         THEN createSubRowSpan(prevRow.rowSpanMap)
                         ELSE EmptyRowSpanMap
    IN [c \in ColumnNames |->
           IF subRowSpanMap[c] # NoSpan THEN subRowSpanMap[c] ELSE mainRowSpanMap[c]]

(* row: the option row [key, rowSpan, value]; keyColumnName: TRUE when a    *)
(* key column is configured, the row key is then the row's value for it;    *)
(* prevRow: NoRow when options.prevRow is not given.                        *)
createRawRow(row, index, keyColumnName, prevRow, lazyObservable) ==
    LET rowKey == IF keyColumnName THEN row.key ELSE index IN
    [rowKey |-> rowKey,
     rowSpan |-> row.rowSpan,
     rowSpanMap |-> createRowSpanMap(rowKey, row.rowSpan, prevRow),
     value |-> row.value,
     observable |-> ~lazyObservable]

(* createData(data, column, true) as create() calls it: the rows are built *)
(* lazily, each with the row before it as prevRow.                          *)
RECURSIVE createData(_, _)
createData(data, keyColumnName) ==
    IF data = <<>> THEN <<>>
    ELSE LET index == Len(data) - 1
             rows == createData(SubSeq(data, 1, index), keyColumnName)
         IN Append(rows, createRawRow(data[index + 1], index, keyColumnName,
                                      RowAt(rows, index - 1), TRUE))

----------------------------------------------------------------------------
(* Queries: src/src/helper/rowSpan.ts *)

(* isRowSpanEnabled reading the sort direction instead of the column name *)
isRowSpanEnabledByDirection(sort) == sort.columns[1].ascending

isRowSpanEnabled(sort) == sort.columns[1].columnName = "sortKey"

getRowSpan(rowIndex, columnName, data) == RowAt(data, rowIndex).rowSpanMap[columnName]

(* The column loop that never moves the start row up *)
RECURSIVE RowSpanRangeColumnsKeepsStart(_, _, _, _, _)
RowSpanRangeColumnsKeepsStart(index, endColumnIndex, startRowIndex, endRowIndex, data) ==
    IF index > endColumnIndex
    THEN [thrown |-> FALSE, range |-> <<startRowIndex, endRowIndex>>]
    ELSE IF \/ RowAt(data, startRowIndex) = NoRow
            \/ RowAt(data, endRowIndex) = NoRow
            \/ index < 0
            \/ index >= Len(visibleColumns)
         THEN [thrown |-> TRUE, range |-> NoRange]
         ELSE LET columnName == visibleColumns[index + 1]
                  endRowSpan == RowAt(data, endRowIndex).rowSpanMap[columnName]
                  bottomRowSpanIndex ==
                      findPropIndex(endRowSpan.mainRowKey, data) + endRowSpan.spanCount - 1
                  newEnd == IF endRowSpan # NoSpan /\ endRowIndex < bottomRowSpanIndex
                            THEN bottomRowSpanIndex ELSE endRowIndex
              IN RowSpanRangeColumnsKeepsStart(index + 1, endColumnIndex, startRowIndex,
                                               newEnd, data)

(* The column loop taking mainRowIndex + spanCount as the bottom row *)
RECURSIVE RowSpanRangeColumnsPastBottom(_, _, _, _, _)
RowSpanRangeColumnsPastBottom(index, endColumnIndex, startRowIndex, endRowIndex, data) ==
    IF index > endColumnIndex
    THEN [thrown |-> FALSE, range |-> <<startRowIndex, endRowIndex>>]
    ELSE IF \/ RowAt(data, startRowIndex) = NoRow
            \/ RowAt(data, endRowIndex) = NoRow
            \/ index < 0
            \/ index >= Len(visibleColumns)
         THEN [thrown |-> TRUE, range |-> NoRange]
         ELSE LET columnName == visibleColumns[index + 1]
                  startRowSpan == RowAt(data, startRowIndex).rowSpanMap[columnName]
                  endRowSpan == RowAt(data, endRowIndex).rowSpanMap[columnName]
                  topRowSpanIndex == findPropIndex(startRowSpan.mainRowKey, data)
                  bottomRowSpanIndex ==
                      findPropIndex(endRowSpan.mainRowKey, data) + endRowSpan.spanCount
                  newStart == IF startRowSpan # NoSpan /\ startRowIndex > topRowSpanIndex
                              THEN topRowSpanIndex ELSE startRowIndex
                  newEnd == IF endRowSpan # NoSpan /\ endRowIndex < bottomRowSpanIndex
                            THEN bottomRowSpanIndex ELSE endRowIndex
              IN RowSpanRangeColumnsPastBottom(index + 1, endColumnIndex, newStart, newEnd, data)

(* One pass of the column loop of getRowSpanRange, from column `index`. *)
RECURSIVE RowSpanRangeColumns(_, _, _, _, _)
RowSpanRangeColumns(index, endColumnIndex, startRowIndex, endRowIndex, data) ==
    IF index > endColumnIndex
    THEN [thrown |-> FALSE, range |-> <<startRowIndex, endRowIndex>>]
    ELSE IF \/ RowAt(data, startRowIndex) = NoRow
            \/ RowAt(data, endRowIndex) = NoRow
            \/ index < 0
            \/ index >= Len(visibleColumns)
         THEN [thrown |-> TRUE, range |-> NoRange]
         ELSE LET columnName == visibleColumns[index + 1]
                  startRowSpan == RowAt(data, startRowIndex).rowSpanMap[columnName]
                  endRowSpan == RowAt(data, endRowIndex).rowSpanMap[columnName]
                  topRowSpanIndex == findPropIndex(startRowSpan.mainRowKey, data)
                  bottomRowSpanIndex ==
                      findPropIndex(endRowSpan.mainRowKey, data) + endRowSpan.spanCount - 1
                  newStart == IF startRowSpan # NoSpan /\ startRowIndex > topRowSpanIndex
                              THEN topRowSpanIndex ELSE startRowIndex
                  newEnd == IF endRowSpan # NoSpan /\ endRowIndex < bottomRowSpanIndex
                            THEN bottomRowSpanIndex ELSE endRowIndex
              IN RowSpanRangeColumns(index + 1, endColumnIndex, newStart, newEnd, data)

RECURSIVE getRowSpanRange(_, _, _)
getRowSpanRange(rowRange, colRange, data) ==
    LET pass == RowSpanRangeColumns(colRange[1], colRange[2], rowRange[1], rowRange[2], data)
    IN IF pass.thrown THEN pass
       ELSE IF pass.range # rowRange
            THEN getRowSpanRange(pass.range, colRange, data)
            ELSE pass

getMaxRowSpanRange(rowRange, colRange, focusRowIndex, data) ==
    LET sortedColRange == getSortedRange(colRange)
        endRowIndex == rowRange[2]
        startRowIndex == IF focusRowIndex # NoKey /\ rowRange[1] # focusRowIndex
                         THEN focusRowIndex ELSE rowRange[1]
        sortedRowRange == getSortedRange(<<startRowIndex, endRowIndex>>)
        spanRange == getRowSpanRange(sortedRowRange, sortedColRange, data)
    IN IF spanRange.thrown THEN spanRange
       ELSE [thrown |-> FALSE,
             range |-> IF startRowIndex > endRowIndex
                       THEN <<spanRange.range[2], spanRange.range[1]>>
                       ELSE spanRange.range]

getRowRangeWithRowSpan(rowRange, colRange, rowIndex, sort, data) ==
    IF isRowSpanEnabled(sort)
    THEN getMaxRowSpanRange(rowRange, colRange, rowIndex, data)
    ELSE [thrown |-> FALSE, range |-> rowRange]

(* The main row's entry; data[-1] when no row has mainRowKey: a TypeError *)
getMainRowSpan(columnName, rowSpan, data) ==
    LET mainRowIndex == findPropIndex(rowSpan.mainRowKey, data) IN
    IF rowSpan.mainRow THEN [thrown |-> FALSE, rowSpan |-> rowSpan]
    ELSE IF RowAt(data, mainRowIndex) = NoRow THEN [thrown |-> TRUE, rowSpan |-> NoSpan]
    ELSE [thrown |-> FALSE, rowSpan |-> RowAt(data, mainRowIndex).rowSpanMap[columnName]]

(* rowCoords: every row is one unit high, offsets[i] = i; a sum that reads *)
(* past the arrays is NaN, given as NoKey.                                  *)
getVerticalPosWithRowSpan(columnName, rowSpan, data) ==
    LET main == getMainRowSpan(columnName, rowSpan, data)
        mainRowSpan == main.rowSpan
        mainRowIndex == findPropIndex(mainRowSpan.mainRowKey, data)
        spanCount == mainRowSpan.spanCount
    IN IF main.thrown \/ mainRowSpan = NoSpan THEN [thrown |-> TRUE, range |-> NoRange]
       ELSE IF mainRowIndex < 0 \/ mainRowIndex + spanCount > Len(data)
            THEN [thrown |-> FALSE, range |-> <<mainRowIndex, NoKey>>]
            ELSE [thrown |-> FALSE, range |-> <<mainRowIndex, mainRowIndex + spanCount>>]

getRowSpanTopIndex(rowIndex, columnName, data) ==
    LET rowSpan == getRowSpan(rowIndex, columnName, data) IN
    IF rowSpan = NoSpan THEN rowIndex
    ELSE findPropIndex(rowSpan.mainRowKey, data)

(* getRowSpanBottomIndex adding the row's count instead of its spanCount *)
getRowSpanBottomIndexByCount(rowIndex, columnName, data) ==
    LET rowSpan == getRowSpan(rowIndex, columnName, data) IN
    IF rowSpan = NoSpan THEN rowIndex
    ELSE findPropIndex(rowSpan.mainRowKey, data) + rowSpan.count - 1

getRowSpanBottomIndex(rowIndex, columnName, data) ==
    LET rowSpan == getRowSpan(rowIndex, columnName, data) IN
    IF rowSpan = NoSpan THEN rowIndex
    ELSE findPropIndex(rowSpan.mainRowKey, data) + rowSpan.spanCount - 1

getRowSpanByRowKey(rowKey, columnName, data) ==
    LET rowIndex == findPropIndex(rowKey, data) IN
    IF rowIndex = -1 THEN NoSpan
    ELSE getRowSpan(rowIndex, columnName, data)

----------------------------------------------------------------------------
(* Span maintenance: src/src/helper/rowSpan.ts *)

SetRowSpan(data, rowIndex, columnName, rowSpan) ==
    [data EXCEPT ![rowIndex + 1].rowSpanMap[columnName] = rowSpan]

(* The loop of updateSubRowSpan from `offset`; mainRowKey is mainRow.rowKey. *)
RECURSIVE updateSubRowSpan(_, _, _, _, _)
updateSubRowSpan(data, mainRowKey, columnName, offset, spanCount) ==
    IF offset >= spanCount THEN [thrown |-> FALSE, data |-> data]
    ELSE LET rowIndex == findPropIndex(mainRowKey, data) + offset IN
         IF RowAt(data, rowIndex) = NoRow THEN [thrown |-> TRUE, data |-> data]
         ELSE updateSubRowSpan(
                  SetRowSpan(data, rowIndex, columnName,
                             createRowSpan(FALSE, mainRowKey, -offset, spanCount)),
                  mainRowKey, columnName, offset + 1, spanCount)

(* The append step raising the main row's spanCount but not its count *)
AppendColumnKeepsCount(data, prevIndex, extendPrevRowSpan, columnName) ==
    LET prevRowSpan == RowAt(data, prevIndex).rowSpanMap[columnName]
        keyRow == prevRowSpan.mainRow
        mainIndex == IF keyRow THEN prevIndex
                     ELSE findPropIndex(prevRowSpan.mainRowKey, data)
        mainRow == RowAt(data, mainIndex)
        mainRowSpan == mainRow.rowSpanMap[columnName]
        startOffset == IF keyRow \/ extendPrevRowSpan THEN 1 ELSE -prevRowSpan.count + 1
    IN IF prevRowSpan = NoSpan THEN [thrown |-> FALSE, data |-> data]
       ELSE IF mainRow = NoRow \/ mainRowSpan = NoSpan THEN [thrown |-> TRUE, data |-> data]
       ELSE IF mainRowSpan.spanCount > startOffset
            THEN updateSubRowSpan(
                     SetRowSpan(data, mainIndex, columnName,
                                [mainRowSpan EXCEPT !.spanCount = @ + 1]),
                     mainRow.rowKey, columnName, 1, mainRowSpan.spanCount + 1)
            ELSE [thrown |-> FALSE, data |-> data]

(* The append step with startOffset 1 whatever extendPrevRowSpan is *)
AppendColumnAlwaysExtends(data, prevIndex, extendPrevRowSpan, columnName) ==
    LET prevRowSpan == RowAt(data, prevIndex).rowSpanMap[columnName]
        keyRow == prevRowSpan.mainRow
        mainIndex == IF keyRow THEN prevIndex
                     ELSE findPropIndex(prevRowSpan.mainRowKey, data)
        mainRow == RowAt(data, mainIndex)
        mainRowSpan == mainRow.rowSpanMap[columnName]
    IN IF prevRowSpan = NoSpan THEN [thrown |-> FALSE, data |-> data]
       ELSE IF mainRow = NoRow \/ mainRowSpan = NoSpan THEN [thrown |-> TRUE, data |-> data]
       ELSE IF mainRowSpan.spanCount > 1
            THEN updateSubRowSpan(
                     SetRowSpan(data, mainIndex, columnName,
                                [mainRowSpan EXCEPT !.count = @ + 1, !.spanCount = @ + 1]),
                     mainRow.rowKey, columnName, 1, mainRowSpan.spanCount + 1)
            ELSE [thrown |-> FALSE, data |-> data]

(* The append step with startOffset -count + 1 on every sub row, whatever  *)
(* extendPrevRowSpan is                                                     *)
AppendColumnIgnoresExtend(data, prevIndex, extendPrevRowSpan, columnName) ==
    LET prevRowSpan == RowAt(data, prevIndex).rowSpanMap[columnName]
        keyRow == prevRowSpan.mainRow
        mainIndex == IF keyRow THEN prevIndex
                     ELSE findPropIndex(prevRowSpan.mainRowKey, data)
        mainRow == RowAt(data, mainIndex)
        mainRowSpan == mainRow.rowSpanMap[columnName]
        startOffset == IF keyRow THEN 1 ELSE -prevRowSpan.count + 1
    IN IF prevRowSpan = NoSpan THEN [thrown |-> FALSE, data |-> data]
       ELSE IF mainRow = NoRow \/ mainRowSpan = NoSpan THEN [thrown |-> TRUE, data |-> data]
       ELSE IF mainRowSpan.spanCount > startOffset
            THEN updateSubRowSpan(
                     SetRowSpan(data, mainIndex, columnName,
                                [mainRowSpan EXCEPT !.count = @ + 1, !.spanCount = @ + 1]),
                     mainRow.rowKey, columnName, 1, mainRowSpan.spanCount + 1)
            ELSE [thrown |-> FALSE, data |-> data]

(* The body of the forEach of updateRowSpanWhenAppend for one column;      *)
(* prevIndex is the index of prevRow in data.                              *)
AppendColumn(data, prevIndex, extendPrevRowSpan, columnName) ==
    LET prevRowSpan == RowAt(data, prevIndex).rowSpanMap[columnName]
        keyRow == prevRowSpan.mainRow
        mainIndex == IF keyRow THEN prevIndex
                     ELSE findPropIndex(prevRowSpan.mainRowKey, data)
        mainRow == RowAt(data, mainIndex)
        mainRowSpan == mainRow.rowSpanMap[columnName]
        startOffset == IF keyRow \/ extendPrevRowSpan THEN 1 ELSE -prevRowSpan.count + 1
    IN IF prevRowSpan = NoSpan THEN [thrown |-> FALSE, data |-> data]
       ELSE IF mainRow = NoRow \/ mainRowSpan = NoSpan THEN [thrown |-> TRUE, data |-> data]
       ELSE IF mainRowSpan.spanCount > startOffset
            THEN updateSubRowSpan(
                     SetRowSpan(data, mainIndex, columnName,
                                [mainRowSpan EXCEPT !.count = @ + 1, !.spanCount = @ + 1]),
                     mainRow.rowKey, columnName, 1, mainRowSpan.spanCount + 1)
            ELSE [thrown |-> FALSE, data |-> data]

(* keys: Object.keys(prevRowSpanMap) still to visit, in iteration order *)
RECURSIVE AppendColumns(_, _, _, _)
AppendColumns(data, prevIndex, extendPrevRowSpan, keys) ==
    IF keys = <<>> THEN [thrown |-> FALSE, data |-> data]
    ELSE LET step == AppendColumn(data, prevIndex, extendPrevRowSpan, Head(keys)) IN
         IF step.thrown THEN step
         ELSE AppendColumns(step.data, prevIndex, extendPrevRowSpan, Tail(keys))

updateRowSpanWhenAppend(data, prevIndex, extendPrevRowSpan, keys) ==
    IF isEmpty(RowAt(data, prevIndex).rowSpanMap)
    THEN [thrown |-> FALSE, data |-> data]
    ELSE AppendColumns(data, prevIndex, extendPrevRowSpan, keys)

(* The tail keeping a span of one row instead of deleting the entry *)
RelinkOrDeleteKeepsOne(data, mainIndex, columnName, spanCount) ==
    IF spanCount > 0
    THEN updateSubRowSpan(
             SetRowSpan(data, mainIndex, columnName,
                        [RowAt(data, mainIndex).rowSpanMap[columnName]
                             EXCEPT !.count = spanCount, !.spanCount = spanCount]),
             RowAt(data, mainIndex).rowKey, columnName, 1, spanCount)
    ELSE [thrown |-> FALSE, data |-> SetRowSpan(data, mainIndex, columnName, NoSpan)]

(* The tail of the forEach body of updateRowSpanWhenRemove: re-link the    *)
(* span below the row at mainIndex, or delete that row's entry.            *)
RelinkOrDelete(data, mainIndex, columnName, spanCount) ==
    IF spanCount > 1
    THEN updateSubRowSpan(
             SetRowSpan(data, mainIndex, columnName,
                        [RowAt(data, mainIndex).rowSpanMap[columnName]
                             EXCEPT !.count = spanCount, !.spanCount = spanCount]),
             RowAt(data, mainIndex).rowKey, columnName, 1, spanCount)
    ELSE [thrown |-> FALSE, data |-> SetRowSpan(data, mainIndex, columnName, NoSpan)]

(* The remove step that never copies the removed row's value *)
RemoveColumnDropsValue(data, removedRow, nextIndex, keepRowSpanData, columnName) ==
    LET removedRowSpan == removedRow.rowSpanMap[columnName]
        keyRow == removedRowSpan.mainRow
        nextRow == RowAt(data, nextIndex)
    IN IF removedRowSpan = NoSpan THEN [thrown |-> FALSE, data |-> data]
       ELSE IF keyRow
       THEN LET spanCount == removedRowSpan.count - 1
                promoted == IF spanCount > 1
                            THEN SetRowSpan(data, nextIndex, columnName,
                                            [nextRow.rowSpanMap[columnName]
                                                 EXCEPT !.mainRowKey = nextRow.rowKey,
                                                        !.mainRow = TRUE])
                            ELSE data
            IN IF nextRow = NoRow THEN [thrown |-> TRUE, data |-> data]
               ELSE IF spanCount > 1 /\ nextRow.rowSpanMap[columnName] = NoSpan
                    THEN [thrown |-> TRUE, data |-> data]
                    ELSE RelinkOrDelete(promoted, nextIndex, columnName, spanCount)
       ELSE LET mainIndex == findPropIndex(removedRowSpan.mainRowKey, data)
                mainRow == RowAt(data, mainIndex)
            IN IF mainRow = NoRow \/ mainRow.rowSpanMap[columnName] = NoSpan
               THEN [thrown |-> TRUE, data |-> data]
               ELSE RelinkOrDelete(data, mainIndex, columnName,
                                   mainRow.rowSpanMap[columnName].spanCount - 1)

(* The body of the forEach of updateRowSpanWhenRemove for one column;      *)
(* data no longer holds removedRow, nextIndex is the index of nextRow in   *)
(* data, or NoKey when no row followed the removed one.                    *)
RemoveColumn(data, removedRow, nextIndex, keepRowSpanData, columnName) ==
    LET removedRowSpan == removedRow.rowSpanMap[columnName]
        keyRow == removedRowSpan.mainRow
        nextRow == RowAt(data, nextIndex)
    IN IF removedRowSpan = NoSpan THEN [thrown |-> FALSE, data |-> data]
       ELSE IF keyRow
       THEN LET spanCount == removedRowSpan.count - 1
                promoted == IF spanCount > 1
                            THEN SetRowSpan(data, nextIndex, columnName,
                                            [nextRow.rowSpanMap[columnName]
                                                 EXCEPT !.mainRowKey = nextRow.rowKey,
                                                        !.mainRow = TRUE])
                            ELSE data
                kept == IF keepRowSpanData
                        THEN [promoted EXCEPT ![nextIndex + 1].value[columnName] =
                                                  removedRow.value[columnName]]
                        ELSE promoted
            IN IF nextRow = NoRow THEN [thrown |-> TRUE, data |-> data]
               ELSE IF spanCount > 1 /\ nextRow.rowSpanMap[columnName] = NoSpan
                    THEN [thrown |-> TRUE, data |-> data]
                    ELSE RelinkOrDelete(kept, nextIndex, columnName, spanCount)
       ELSE LET mainIndex == findPropIndex(removedRowSpan.mainRowKey, data)
                mainRow == RowAt(data, mainIndex)
            IN IF mainRow = NoRow \/ mainRow.rowSpanMap[columnName] = NoSpan
               THEN [thrown |-> TRUE, data |-> data]
               ELSE RelinkOrDelete(data, mainIndex, columnName,
                                   mainRow.rowSpanMap[columnName].spanCount - 1)

(* keys: Object.keys(removedRowSpanMap) still to visit, in iteration order *)
RECURSIVE RemoveColumns(_, _, _, _, _)
RemoveColumns(data, removedRow, nextIndex, keepRowSpanData, keys) ==
    IF keys = <<>> THEN [thrown |-> FALSE, data |-> data]
    ELSE LET step == RemoveColumn(data, removedRow, nextIndex, keepRowSpanData, Head(keys)) IN
         IF step.thrown THEN step
         ELSE RemoveColumns(step.data, removedRow, nextIndex, keepRowSpanData, Tail(keys))

updateRowSpanWhenRemove(data, removedRow, nextIndex, keepRowSpanData, keys) ==
    IF isEmpty(removedRow.rowSpanMap)
    THEN [thrown |-> FALSE, data |-> data]
    ELSE RemoveColumns(data, removedRow, nextIndex, keepRowSpanData, keys)

----------------------------------------------------------------------------
(* The datasets handed to createData and the calls made on the store *)

RECURSIVE SeqsOf(_, _)
SeqsOf(S, n) ==
    IF n = 0 THEN {<<>>}
    ELSE {Append(q, x) : q \in SeqsOf(S, n - 1), x \in S}

(* The orders in which Object.keys may list the columns of a rowSpanMap *)
KeyOrders ==
    {q \in SeqsOf(ColumnNames, Len(visibleColumns)) :
         \A i, j \in 1..Len(q) : i # j => q[i] # q[j]}

Declared(rowSpan) == Cardinality({c \in ColumnNames : rowSpan[c] # 0})

(* The rowSpan options of n rows: at most `budget` cells declare a span,   *)
(* all of them on the first `declaring` rows.                              *)
RECURSIVE RowSpanOptions(_, _, _)
RowSpanOptions(n, budget, declaring) ==
    IF n = 0 THEN {<<>>}
    ELSE UNION {{Append(q, rowSpan) :
                    q \in RowSpanOptions(n - 1, budget - Declared(rowSpan), declaring)} :
                rowSpan \in {r \in [ColumnNames -> 0..MaxSpan] :
                                 /\ Declared(r) <= budget
                                 /\ n > declaring => r = NoRowSpan}}

(* The values of the key column: the row indices, rotated by `shift` *)
OptRows(rowSpans, shift) ==
    [i \in 1..Len(rowSpans) |->
        [key |-> (i - 1 + shift) % Len(rowSpans),
         rowSpan |-> rowSpans[i],
         value |-> [c \in ColumnNames |-> i - 1]]]

NoCall == [op |-> "createData", index |-> NoKey, flag |-> FALSE,
           rowRange |-> NoRange, colRange |-> NoRange, columnName |-> "", value |-> NoKey]

NoAddress == [rowKey |-> NoKey, columnName |-> ""]

NoFocus == [rowKey |-> NoKey, columnName |-> "", prevRowKey |-> NoKey,
            prevColumnName |-> "", editingAddress |-> NoAddress,
            navigating |-> FALSE, forcedDestroyEditing |-> FALSE]

SortedBy(columnName) == [columns |-> <<[columnName |-> columnName, ascending |-> TRUE]>>]

NaturalOrder == SortedBy("sortKey")

(* rawData is the result of createData on a dataset of one of the `sizes`,  *)
(* keyed by row index (shift 0) or by a key column (one of the `shifts`),   *)
(* with at most `budget` declared spans.                                    *)
CreatedWith(sizes, shifts, declaring, budget) ==
    \E n \in sizes :
        \E rowSpans \in RowSpanOptions(n, budget, declaring) :
            \E shift \in (shifts \cap 0..(n - 1)) :
                /\ optData = OptRows(rowSpans, shift)
                /\ rawData = createData(optData, shift # 0)
                /\ pre = rawData
                /\ nextKey = n

Created(sizes, shifts, declaring) == CreatedWith(sizes, shifts, declaring, MaxDecl)

Init ==
    /\ Created(1..NumRows, {0}, NumRows)
    /\ sortState = NaturalOrder
    /\ focus = NoFocus
    /\ column = [hidden |-> {}]
    /\ calls = 0
    /\ last = NoCall
    /\ ret = NoRange
    /\ thrown = FALSE
    /\ preFocus = NoFocus
    /\ log = <<>>

InsertAt(data, index, row) ==
    SubSeq(data, 1, index) \o <<row>> \o SubSeq(data, index + 1, Len(data))

RemoveAt(data, index) ==
    SubSeq(data, 1, index) \o SubSeq(data, index + 2, Len(data))

(* appendRow: the new row is spliced in right after prevRow, then          *)
(* updateRowSpanWhenAppend(rawData, prevRow, extendPrevRowSpan); one of at *)
(* most `limit` calls.                                                     *)
AppendRowWithin(limit) ==
    /\ calls < limit
    /\ \E prevIndex \in 0..(Len(rawData) - 1), extendPrevRowSpan \in BOOLEAN, keys \in KeyOrders :
        LET row == createRawRow([key |-> nextKey, rowSpan |-> NoRowSpan,
                                 value |-> [c \in ColumnNames |-> nextKey]],
                                prevIndex + 1, TRUE, NoRow, FALSE)
            done == updateRowSpanWhenAppend(InsertAt(rawData, prevIndex + 1, row),
                                            prevIndex, extendPrevRowSpan, keys)
        IN /\ rawData' = done.data
           /\ thrown' = done.thrown
           /\ last' = [NoCall EXCEPT !.op = "appendRow", !.index = prevIndex,
                                     !.flag = extendPrevRowSpan]
    /\ pre' = rawData
    /\ nextKey' = nextKey + 1
    /\ calls' = calls + 1
    /\ ret' = NoRange
    /\ UNCHANGED <<optData, sortState, focus, column, preFocus, log>>

AppendRow == AppendRowWithin(MaxCalls)

(* removeRow: the row is spliced out, then updateRowSpanWhenRemove(rawData, *)
(* removedRow, nextRow, keepRowSpanData) with the row that followed it; one *)
(* of at most `limit` calls.                                                *)
RemoveRowWithin(limit) ==
    /\ calls < limit
    /\ \E rowIndex \in 0..(Len(rawData) - 1), keepRowSpanData \in BOOLEAN, keys \in KeyOrders :
        LET removedRow == RowAt(rawData, rowIndex)
            nextIndex == IF rowIndex + 1 < Len(rawData) THEN rowIndex ELSE NoKey
            done == updateRowSpanWhenRemove(RemoveAt(rawData, rowIndex), removedRow,
                                            nextIndex, keepRowSpanData, keys)
        IN /\ rawData' = done.data
           /\ thrown' = done.thrown
           /\ last' = [NoCall EXCEPT !.op = "removeRow", !.index = rowIndex,
                                     !.flag = keepRowSpanData]
    /\ pre' = rawData
    /\ calls' = calls + 1
    /\ ret' = NoRange
    /\ UNCHANGED <<optData, sortState, focus, column, nextKey, preFocus, log>>

RemoveRow == RemoveRowWithin(MaxCalls)

Next == AppendRow \/ RemoveRow

Spec == Init /\ [][Next]_vars

----------------------------------------------------------------------------
(* The span queries, asked of a created dataset *)

RowIndexes == 0..(Len(rawData) - 1)

ColumnIndexes == 0..(Len(visibleColumns) - 1)

InitQuery ==
    /\ Created(1..NumRows, {0}, NumRows)
    /\ sortState \in {NaturalOrder, SortedBy(visibleColumns[1])}
    /\ focus = NoFocus
    /\ column = [hidden |-> {}]
    /\ calls = 0
    /\ last = NoCall
    /\ ret = NoRange
    /\ thrown = FALSE
    /\ preFocus = NoFocus
    /\ log = <<>>

(* getRowRangeWithRowSpan, asked when `asking` holds *)
GetRowRangeWithRowSpanWhen(asking) ==
    /\ asking
    /\ \E rowRange \in RowIndexes \X RowIndexes, colRange \in ColumnIndexes \X ColumnIndexes,
          rowIndex \in RowIndexes \cup {NoKey} :
        LET done == getRowRangeWithRowSpan(rowRange, colRange, rowIndex, sortState, rawData)
        IN /\ ret' = done.range
           /\ thrown' = done.thrown
           /\ last' = [NoCall EXCEPT !.op = "getRowRangeWithRowSpan", !.index = rowIndex,
                                     !.rowRange = rowRange, !.colRange = colRange]
    /\ pre' = rawData
    /\ UNCHANGED <<optData, rawData, sortState, focus, column, nextKey, calls, preFocus, log>>

GetRowRangeWithRowSpan == GetRowRangeWithRowSpanWhen(last = NoCall)

(* getRowSpanTopIndex and getRowSpanBottomIndex of one cell, asked when     *)
(* `asking` holds.                                                          *)
GetRowSpanIndexesWhen(asking) ==
    /\ asking
    /\ \E rowIndex \in RowIndexes, columnName \in ColumnNames :
        /\ ret' = <<getRowSpanTopIndex(rowIndex, columnName, rawData),
                    getRowSpanBottomIndex(rowIndex, columnName, rawData)>>
        /\ last' = [NoCall EXCEPT !.op = "getRowSpanIndexes", !.index = rowIndex,
                                  !.columnName = columnName]
    /\ thrown' = FALSE
    /\ pre' = rawData
    /\ UNCHANGED <<optData, rawData, sortState, focus, column, nextKey, calls, preFocus, log>>

GetRowSpanIndexes == GetRowSpanIndexesWhen(last = NoCall)

NextQuery == GetRowRangeWithRowSpan \/ GetRowSpanIndexes

SpecQuery == InitQuery /\ [][NextQuery]_vars

----------------------------------------------------------------------------
(* Range queries on a created dataset in natural order, with as many        *)
(* declared spans as there are columns, so that spans of different columns  *)
(* overlap.                                                                 *)

InitRange ==
    /\ CreatedWith({NumRows}, {0}, NumRows, Len(visibleColumns))
    /\ sortState = NaturalOrder
    /\ focus = NoFocus
    /\ column = [hidden |-> {}]
    /\ calls = 0
    /\ last = NoCall
    /\ ret = NoRange
    /\ thrown = FALSE
    /\ preFocus = NoFocus
    /\ log = <<>>

NextRange == GetRowRangeWithRowSpan

SpecRange == InitRange /\ [][NextRange]_vars

----------------------------------------------------------------------------
(* Focus: src/src/dispatch/focus.ts *)

isFocusedCell(f, rowKey, columnName) ==
    rowKey = f.rowKey /\ columnName = f.columnName

isEditingCell(f, rowKey, columnName) ==
    /\ f.editingAddress # NoAddress
    /\ f.editingAddress.rowKey = rowKey
    /\ f.editingAddress.columnName = columnName

isHiddenColumn(col, columnName) == columnName \in col.hidden

findIndexByRowKey(data, rowKey) == findPropIndex(rowKey, data)

(* The cell's row is found and its column has an editor *)
isCellEditable(data, col, rowKey, columnName) ==
    /\ findIndexByRowKey(data, rowKey) # -1
    /\ columnName \in col.editable

(* A call in progress: the focus store, what the call has raised and       *)
(* written so far, the rows, and whether it has ended in a TypeError.       *)
Began(f, data) == [focus |-> f, log |-> <<>>, data |-> data, thrown |-> FALSE]

(* eventBus.trigger(name, gridEvent) *)
Trigger(run, name) ==
    [run EXCEPT !.log = Append(@, [kind |-> "trigger", name |-> name, focus |-> run.focus])]

(* focus[name] = value; the log keeps the store as it is right after the write *)
Write(run, name, value) ==
    LET f == run.focus
        written ==
            CASE name = "rowKey" -> [f EXCEPT !.rowKey = value]
              [] name = "columnName" -> [f EXCEPT !.columnName = value]
              [] name = "prevRowKey" -> [f EXCEPT !.prevRowKey = value]
              [] name = "prevColumnName" -> [f EXCEPT !.prevColumnName = value]
              [] name = "editingAddress" -> [f EXCEPT !.editingAddress = value]
              [] name = "navigating" -> [f EXCEPT !.navigating = value]
              [] name = "forcedDestroyEditing" -> [f EXCEPT !.forcedDestroyEditing = value]
    IN [run EXCEPT !.focus = written,
                   !.log = Append(@, [kind |-> "write", name |-> name, focus |-> written])]

(* The writes of changeFocus made in the order columnName, rowKey,         *)
(* prevColumnName, prevRowKey                                               *)
changeFocusWritesAddressFirst(run, columnName, focusRowKey) ==
    LET w1 == Write(run, "columnName", columnName)
        w2 == Write(w1, "rowKey", focusRowKey)
        w3 == Write(w2, "prevColumnName", w2.focus.columnName)
    IN Write(w3, "prevRowKey", w3.focus.rowKey)

(* focus.ts 129-132: the four writes of changeFocus, each reading the store *)
(* as the writes before it left it.                                         *)
changeFocusWrites(run, columnName, focusRowKey) ==
    LET w1 == Write(run, "prevColumnName", run.focus.columnName)
        w2 == Write(w1, "prevRowKey", w1.focus.rowKey)
        w3 == Write(w2, "columnName", columnName)
    IN Write(w3, "rowKey", focusRowKey)

(* f: the focus store; stopped: the focusChange event came back stopped.   *)
(* A null rowKey is NoKey, a null columnName is "".                        *)
changeFocus(f, data, sort, col, rowKey, columnName, stopped) ==
    IF \/ isFocusedCell(f, rowKey, columnName)
       \/ (columnName # "" /\ isHiddenColumn(col, columnName))
    THEN Began(f, data)
    ELSE LET raised == Trigger(Began(f, data), "focusChange")
             rowSpan == getRowSpanByRowKey(rowKey, columnName, data)
             focusRowKey ==
                 IF /\ rowKey # NoKey /\ rowKey # 0
                    /\ columnName # ""
                    /\ isRowSpanEnabled(sort)
                    /\ rowSpan # NoSpan
                 THEN rowSpan.mainRowKey
                 ELSE rowKey
         IN IF stopped THEN raised
            ELSE changeFocusWrites(raised, columnName, focusRowKey)

initFocus(f) ==
    LET w1 == Write(Began(f, <<>>), "editingAddress", NoAddress)
        w2 == Write(w1, "navigating", FALSE)
        w3 == Write(w2, "rowKey", NoKey)
        w4 == Write(w3, "columnName", "")
        w5 == Write(w4, "prevRowKey", NoKey)
    IN Write(w5, "prevColumnName", "")

(* The row of rowKey, built lazily by create(), is built again as an        *)
(* observable row: createRawRow(rawRow, foundIndex, column.defaultValues),  *)
(* with no options.  No tree column is configured.                          *)
makeObservable(run, rowKey) ==
    LET foundIndex == findIndexByRowKey(run.data, rowKey)
        rawRow == RowAt(run.data, foundIndex)
    IN IF rawRow = NoRow THEN [run EXCEPT !.thrown = TRUE]
       ELSE IF rawRow.observable THEN run
       ELSE [run EXCEPT !.data[foundIndex + 1] =
                 createRawRow([key |-> rawRow.rowKey, rowSpan |-> rawRow.rowSpan,
                               value |-> rawRow.value],
                              foundIndex, FALSE, NoRow, FALSE)]

(* startEditing opening the edit without asking whether the event was stopped *)
startEditingUnchecked(f, data, col, rowKey, columnName, stopped) ==
    LET made == makeObservable(Began(f, data), rowKey) IN
    IF made.thrown THEN made
    ELSE IF findIndexByRowKey(made.data, rowKey) = -1 THEN [made EXCEPT !.thrown = TRUE]
    ELSE IF ~isCellEditable(made.data, col, rowKey, columnName) THEN made
    ELSE LET raised == Trigger(made, "editingStart")
             w1 == Write(raised, "forcedDestroyEditing", FALSE)
             w2 == Write(w1, "navigating", FALSE)
         IN Write(w2, "editingAddress", [rowKey |-> rowKey, columnName |-> columnName])

(* startEditing opening the edit without clearing forcedDestroyEditing and  *)
(* navigating                                                               *)
startEditingKeepsFlags(f, data, col, rowKey, columnName, stopped) ==
    LET made == makeObservable(Began(f, data), rowKey) IN
    IF made.thrown THEN made
    ELSE IF findIndexByRowKey(made.data, rowKey) = -1 THEN [made EXCEPT !.thrown = TRUE]
    ELSE IF ~isCellEditable(made.data, col, rowKey, columnName) THEN made
    ELSE LET raised == Trigger(made, "editingStart") IN
         IF stopped THEN raised
         ELSE Write(raised, "editingAddress", [rowKey |-> rowKey, columnName |-> columnName])

(* stopped: the editingStart event came back stopped.  A rowKey that no row *)
(* carries once the row is materialized ends the call in a TypeError.       *)
startEditing(f, data, col, rowKey, columnName, stopped) ==
    LET made == makeObservable(Began(f, data), rowKey) IN
    IF made.thrown THEN made
    ELSE IF findIndexByRowKey(made.data, rowKey) = -1 THEN [made EXCEPT !.thrown = TRUE]
    ELSE IF ~isCellEditable(made.data, col, rowKey, columnName) THEN made
    ELSE LET raised == Trigger(made, "editingStart") IN
         IF stopped THEN raised
         ELSE LET w1 == Write(raised, "forcedDestroyEditing", FALSE)
                  w2 == Write(w1, "navigating", FALSE)
              IN Write(w2, "editingAddress", [rowKey |-> rowKey, columnName |-> columnName])

(* finishEditing ending the edit whatever address it is called for *)
finishEditingAnyAddress(run, rowKey, columnName, stopped) ==
    LET raised == Trigger(run, "editingFinish") IN
    IF ~stopped
    THEN Write(Write(raised, "editingAddress", NoAddress), "navigating", TRUE)
    ELSE raised

(* run: the call so far (finishEditing is also the tail of                 *)
(* saveAndFinishEditing); stopped: the editingFinish event came back stopped *)
finishEditing(run, rowKey, columnName, stopped) ==
    LET raised == Trigger(run, "editingFinish") IN
    IF ~stopped /\ isEditingCell(raised.focus, rowKey, columnName)
    THEN Write(Write(raised, "editingAddress", NoAddress), "navigating", TRUE)
    ELSE raised

(* The value handed to saveAndFinishEditing when none is given *)
Undefined == -2

(* setValue(store, rowKey, columnName, value): the value is committed to    *)
(* the row of rowKey.                                                       *)
setValue(run, rowKey, columnName, value) ==
    LET foundIndex == findIndexByRowKey(run.data, rowKey) IN
    [run EXCEPT !.data[foundIndex + 1].value[columnName] = value,
                !.log = Append(@, [kind |-> "setValue", name |-> columnName,
                                   focus |-> run.focus])]

(* saveAndFinishEditing not asking whether the address is the one editing *)
saveAndFinishEditingAnyAddress(f, data, col, rowKey, columnName, value, stopped) ==
    LET made == makeObservable(Began(f, data), rowKey) IN
    IF made.thrown THEN made
    ELSE IF findIndexByRowKey(made.data, rowKey) = -1 THEN [made EXCEPT !.thrown = TRUE]
    ELSE IF ~isCellEditable(made.data, col, rowKey, columnName) THEN made
    ELSE IF value = Undefined
         THEN LET w1 == Write(made, "forcedDestroyEditing", TRUE)
                  w2 == Write(w1, "editingAddress", NoAddress)
              IN Write(w2, "navigating", TRUE)
         ELSE finishEditing(setValue(made, rowKey, columnName, value),
                            rowKey, columnName, stopped)

(* saveAndFinishEditing without the cancel path: a missing value is         *)
(* committed and the edit finished like any other.                          *)
saveAndFinishEditingNoCancel(f, data, col, rowKey, columnName, value, stopped) ==
    IF ~isEditingCell(f, rowKey, columnName) THEN Began(f, data)
    ELSE LET made == makeObservable(Began(f, data), rowKey) IN
         IF made.thrown THEN made
         ELSE IF findIndexByRowKey(made.data, rowKey) = -1 THEN [made EXCEPT !.thrown = TRUE]
         ELSE IF ~isCellEditable(made.data, col, rowKey, columnName) THEN made
         ELSE finishEditing(setValue(made, rowKey, columnName, value),
                            rowKey, columnName, stopped)

(* saveAndFinishEditing running the finish-editing transition before the    *)
(* value is committed.                                                      *)
saveAndFinishEditingFinishFirst(f, data, col, rowKey, columnName, value, stopped) ==
    IF ~isEditingCell(f, rowKey, columnName) THEN Began(f, data)
    ELSE LET made == makeObservable(Began(f, data), rowKey) IN
         IF made.thrown THEN made
         ELSE IF findIndexByRowKey(made.data, rowKey) = -1 THEN [made EXCEPT !.thrown = TRUE]
         ELSE IF ~isCellEditable(made.data, col, rowKey, columnName) THEN made
         ELSE IF value = Undefined
              THEN LET w1 == Write(made, "forcedDestroyEditing", TRUE)
                       w2 == Write(w1, "editingAddress", NoAddress)
                   IN Write(w2, "navigating", TRUE)
              ELSE setValue(finishEditing(made, rowKey, columnName, stopped),
                            rowKey, columnName, value)

(* focus.ts 145-174 *)
saveAndFinishEditing(f, data, col, rowKey, columnName, value, stopped) ==
    IF ~isEditingCell(f, rowKey, columnName) THEN Began(f, data)
    ELSE LET made == makeObservable(Began(f, data), rowKey) IN
         IF made.thrown THEN made
         ELSE IF findIndexByRowKey(made.data, rowKey) = -1 THEN [made EXCEPT !.thrown = TRUE]
         ELSE IF ~isCellEditable(made.data, col, rowKey, columnName) THEN made
         ELSE IF value = Undefined
              THEN LET w1 == Write(made, "forcedDestroyEditing", TRUE)
                       w2 == Write(w1, "editingAddress", NoAddress)
                   IN Write(w2, "navigating", TRUE)
              ELSE finishEditing(setValue(made, rowKey, columnName, value),
                                 rowKey, columnName, stopped)

RowKeys == {rawData[i].rowKey : i \in 1..Len(rawData)}

InitFocus ==
    /\ Created({NumRows}, 0..(NumRows - 1), 1)
    /\ sortState \in {NaturalOrder, SortedBy(visibleColumns[1])}
    /\ focus = NoFocus
    /\ column \in {[hidden |-> {}], [hidden |-> {visibleColumns[Len(visibleColumns)]}]}
    /\ calls = 0
    /\ last = NoCall
    /\ ret = NoRange
    /\ thrown = FALSE
    /\ preFocus = NoFocus
    /\ log = <<>>

(* The addresses changeFocus is called with: a cell, or none (null, null) *)
FocusTargets == (RowKeys \X ColumnNames) \cup {<<NoKey, "">>}

(* A call of changeFocus, one of at most `limit` calls *)
ChangeFocusWithin(limit) ==
    /\ calls < limit
    /\ \E address \in FocusTargets, stopped \in BOOLEAN :
        LET rowKey == address[1]
            columnName == address[2]
            done == changeFocus(focus, rawData, sortState, column, rowKey, columnName, stopped)
        IN /\ focus' = done.focus
           /\ log' = done.log
           /\ last' = [NoCall EXCEPT !.op = "changeFocus", !.index = rowKey,
                                     !.columnName = columnName, !.flag = stopped]
    /\ calls' = calls + 1
    /\ pre' = rawData
    /\ preFocus' = focus
    /\ ret' = NoRange
    /\ thrown' = FALSE
    /\ UNCHANGED <<optData, rawData, sortState, column, nextKey>>

ChangeFocus == ChangeFocusWithin(MaxCalls)

(* A call of initFocus, one of at most `limit` calls *)
InitFocusWithin(limit) ==
    /\ calls < limit
    /\ focus' = initFocus(focus).focus
    /\ log' = initFocus(focus).log
    /\ last' = [NoCall EXCEPT !.op = "initFocus"]
    /\ calls' = calls + 1
    /\ pre' = rawData
    /\ preFocus' = focus
    /\ ret' = NoRange
    /\ thrown' = FALSE
    /\ UNCHANGED <<optData, rawData, sortState, column, nextKey>>

InitFocusCall == InitFocusWithin(MaxCalls)

NextFocus == ChangeFocus \/ InitFocusCall

SpecFocus == InitFocus /\ [][NextFocus]_vars

----------------------------------------------------------------------------
(* Focus and editing calls, in any order, on a created dataset in natural   *)
(* order with at most one declared span, keyed by row index or by a key     *)
(* column; the first column has an editor, the last one may be hidden.      *)

InitEdit ==
    /\ CreatedWith({NumRows}, {0, 1}, 1, 1)
    /\ sortState = NaturalOrder
    /\ focus = NoFocus
    /\ column \in {[hidden |-> h, editable |-> {visibleColumns[1]}] :
                       h \in {{}, {visibleColumns[Len(visibleColumns)]}}}
    /\ calls = 0
    /\ last = NoCall
    /\ ret = NoRange
    /\ thrown = FALSE
    /\ preFocus = NoFocus
    /\ log = <<>>

(* A call of startEditing, one of at most `limit` calls *)
StartEditingWithin(limit) ==
    /\ calls < limit
    /\ \E rowKey \in RowKeys, columnName \in ColumnNames, stopped \in BOOLEAN :
        LET done == startEditing(focus, rawData, column, rowKey, columnName, stopped)
        IN /\ focus' = done.focus
           /\ rawData' = done.data
           /\ log' = done.log
           /\ thrown' = done.thrown
           /\ last' = [NoCall EXCEPT !.op = "startEditing", !.index = rowKey,
                                     !.columnName = columnName, !.flag = stopped]
    /\ calls' = calls + 1
    /\ pre' = rawData
    /\ preFocus' = focus
    /\ ret' = NoRange
    /\ UNCHANGED <<optData, sortState, column, nextKey>>

StartEditing == StartEditingWithin(MaxEdits)

(* A call of finishEditing, one of at most `limit` calls *)
FinishEditingWithin(limit) ==
    /\ calls < limit
    /\ \E rowKey \in RowKeys, columnName \in ColumnNames, stopped \in BOOLEAN :
        LET done == finishEditing(Began(focus, rawData), rowKey, columnName, stopped)
        IN /\ focus' = done.focus
           /\ log' = done.log
           /\ last' = [NoCall EXCEPT !.op = "finishEditing", !.index = rowKey,
                                     !.columnName = columnName, !.flag = stopped]
    /\ calls' = calls + 1
    /\ pre' = rawData
    /\ preFocus' = focus
    /\ ret' = NoRange
    /\ thrown' = FALSE
    /\ UNCHANGED <<optData, rawData, sortState, column, nextKey>>

FinishEditing == FinishEditingWithin(MaxEdits)

(* A call of saveAndFinishEditing, one of at most `limit` calls.  value:    *)
(* none given (Undefined), or a value no cell holds yet, whose              *)
(* editingFinish event may come back stopped.                               *)
SaveAndFinishEditingWithin(limit) ==
    /\ calls < limit
    /\ \E rowKey \in RowKeys, columnName \in ColumnNames,
          given \in {<<Undefined, FALSE>>, <<nextKey, FALSE>>, <<nextKey, TRUE>>} :
        LET value == given[1]
            stopped == given[2]
            done == saveAndFinishEditing(focus, rawData, column, rowKey, columnName,
                                         value, stopped)
        IN /\ focus' = done.focus
           /\ rawData' = done.data
           /\ log' = done.log
           /\ thrown' = done.thrown
           /\ last' = [NoCall EXCEPT !.op = "saveAndFinishEditing", !.index = rowKey,
                                     !.columnName = columnName, !.flag = stopped,
                                     !.value = value]
    /\ calls' = calls + 1
    /\ pre' = rawData
    /\ preFocus' = focus
    /\ ret' = NoRange
    /\ UNCHANGED <<optData, sortState, column, nextKey>>

SaveAndFinishEditing == SaveAndFinishEditingWithin(MaxEdits)

NextEdit ==
    \/ ChangeFocusWithin(MaxEdits)
    \/ StartEditing
    \/ FinishEditing
    \/ SaveAndFinishEditing
    \/ InitFocusWithin(MaxEdits)

SpecEdit == InitEdit /\ [][NextEdit]_vars

----------------------------------------------------------------------------
(* The same calls up to a reload of the dataset (initFocus), on a store     *)
(* with no hidden column: long enough for an edit to be started, cancelled  *)
(* and the focus initialized.                                               *)

InitReload == InitEdit /\ column.hidden = {}

NextReload ==
    \/ ChangeFocusWithin(MaxReloadCalls)
    \/ StartEditingWithin(MaxReloadCalls)
    \/ FinishEditingWithin(MaxReloadCalls)
    \/ SaveAndFinishEditingWithin(MaxReloadCalls)
    \/ InitFocusWithin(MaxReloadCalls)

SpecReload == InitReload /\ [][NextReload]_vars

----------------------------------------------------------------------------
(* The same calls on a dataset with no declared span: the edits opened,     *)
(* finished, cancelled and opened again.                                    *)

InitNavigate ==
    /\ InitReload
    /\ \A i \in 1..Len(optData) : optData[i].rowSpan = NoRowSpan

SpecNavigate == InitNavigate /\ [][NextReload]_vars

----------------------------------------------------------------------------
(* The span operations called on a dataset whose rows startEditing may have *)
(* materialized: at most MaxResolves calls, the span queries asked right    *)
(* after a startEditing.                                                    *)

Materialized == last.op = "startEditing"

GetVerticalPosWithRowSpan ==
    /\ Materialized
    /\ \E rowIndex \in RowIndexes, columnName \in ColumnNames :
        LET rowSpan == getRowSpan(rowIndex, columnName, rawData)
            done == getVerticalPosWithRowSpan(columnName, rowSpan, rawData)
        IN /\ rowSpan # NoSpan
           /\ ret' = done.range
           /\ thrown' = done.thrown
           /\ last' = [NoCall EXCEPT !.op = "getVerticalPosWithRowSpan", !.index = rowIndex,
                                     !.columnName = columnName]
    /\ pre' = rawData
    /\ UNCHANGED <<optData, rawData, sortState, focus, column, nextKey, calls, preFocus, log>>

NextResolve ==
    \/ StartEditingWithin(MaxCalls)
    \/ AppendRowWithin(MaxResolves)
    \/ RemoveRowWithin(MaxResolves)
    \/ GetRowSpanIndexesWhen(Materialized)
    \/ GetRowRangeWithRowSpanWhen(Materialized)
    \/ GetVerticalPosWithRowSpan

SpecResolve == InitEdit /\ [][NextResolve]_vars

----------------------------------------------------------------------------
(* Spans of a dataset *)

SpanAt(data, rowIndex, columnName) == RowAt(data, rowIndex).rowSpanMap[columnName]

Spanned(data, columnName) ==
    {i \in 0..(Len(data) - 1) : SpanAt(data, i, columnName) # NoSpan}

Members(data, columnName, mainRowKey) ==
    {i \in Spanned(data, columnName) : SpanAt(data, i, columnName).mainRowKey = mainRowKey}

MainRowKeys(data, columnName) ==
    {SpanAt(data, i, columnName).mainRowKey : i \in Spanned(data, columnName)}

(* The rows pointing at mainRowKey are spanCount contiguous rows headed by  *)
(* the row of that key, the only main row, all with the same spanCount.     *)
SpanInvariantAt(data, columnName, mainRowKey) ==
    LET members == Members(data, columnName, mainRowKey) IN
    \E first \in members :
        LET spanCount == SpanAt(data, first, columnName).spanCount IN
        /\ members = first..(first + spanCount - 1)
        /\ RowAt(data, first).rowKey = mainRowKey
        /\ \A i \in members :
               /\ SpanAt(data, i, columnName).mainRow = (i = first)
               /\ SpanAt(data, i, columnName).spanCount = spanCount

SpanInvariant(data) ==
    \A c \in ColumnNames : \A k \in MainRowKeys(data, c) : SpanInvariantAt(data, c, k)

(* The index of the row that is the main row of the span holding rowIndex *)
MainIndex(data, rowIndex, columnName) ==
    CHOOSE i \in 0..(Len(data) - 1) :
        RowAt(data, i).rowKey = SpanAt(data, rowIndex, columnName).mainRowKey

(* count is spanCount on the main row, minus the offset on a sub row *)
CountsAt(data, columnName) ==
    \A i \in Spanned(data, columnName) :
        LET main == MainIndex(data, i, columnName) IN
        SpanAt(data, i, columnName).count =
            IF i = main THEN SpanAt(data, i, columnName).spanCount ELSE main - i

(* The data model of a dataset: every span has two rows or more, satisfies  *)
(* the span invariant and numbers its rows by count.                        *)
WellFormed(data) ==
    /\ SpanInvariant(data)
    /\ \A c \in ColumnNames :
           /\ CountsAt(data, c)
           /\ \A i \in Spanned(data, c) : SpanAt(data, i, c).spanCount >= 2

(* The span of mainRowKey on columnName is exactly: a main row at index     *)
(* first and spanCount - 1 sub rows below it.                               *)
IsSpan(data, columnName, first, spanCount) ==
    LET mainRowKey == RowAt(data, first).rowKey IN
    /\ first + spanCount <= Len(data)
    /\ SpanAt(data, first, columnName) = createRowSpan(TRUE, mainRowKey, spanCount, spanCount)
    /\ \A offset \in 1..(spanCount - 1) :
           SpanAt(data, first + offset, columnName) =
               createRowSpan(FALSE, mainRowKey, -offset, spanCount)
    /\ Members(data, columnName, mainRowKey) = first..(first + spanCount - 1)

----------------------------------------------------------------------------
(* Claims on construction, append and remove *)

(* Every declared span of the option rows ends inside the dataset *)
DeclarationsFit(data) ==
    \A i \in 1..Len(data) : \A c \in ColumnNames :
        data[i].rowSpan[c] # 0 => i - 1 + data[i].rowSpan[c] <= Len(data)

(* C1: in every state reached by appends and removes from a dataset created *)
(* from declarations that fit in it, for every column and every main row    *)
(* key, the rows pointing at that key are spanCount contiguous rows headed   *)
(* by the row of that key, which is the only main row, and all of them      *)
(* carry the same spanCount.                                                *)
C1_SpanInvariant == DeclarationsFit(optData) => SpanInvariant(rawData)

(* A declaration {c: k} on row i that fits in the dataset and that no       *)
(* earlier row's declaration on c precedes.                                 *)
DeclaresAt(data, i, columnName) ==
    /\ RowAt(data, i).rowSpan[columnName] # 0
    /\ i + RowAt(data, i).rowSpan[columnName] <= Len(data)
    /\ \A j \in 0..(i - 1) : RowAt(data, j).rowSpan[columnName] = 0

(* C2: after createData, a row i declaring {c: k} is the main row of k rows *)
(* i..i+k-1: row i has (true, key(i), k, k), row i+j has (false, key(i),    *)
(* -j, k) for 1 <= j <= k-1, and row i+k has no entry from the declaration. *)
C2_DeclaredSpan ==
    last = NoCall =>
        \A i \in 0..(Len(rawData) - 1) : \A c \in ColumnNames :
            DeclaresAt(rawData, i, c) =>
                IsSpan(rawData, c, i, RowAt(rawData, i).rowSpan[c])

(* The append of the last call went in right after a row of a span of       *)
(* spanCount rows headed by the row at index first, above its last row.     *)
AppendedInside(columnName, first, spanCount) ==
    /\ last.op = "appendRow"
    /\ ~last.flag
    /\ WellFormed(pre)
    /\ IsSpan(pre, columnName, first, spanCount)
    /\ first <= last.index
    /\ last.index < first + spanCount - 1

(* C3: a row appended after a member of a span of k rows that is not the    *)
(* span's last row (extendPrevRowSpan false) makes it a span of k + 1 rows: *)
(* the main row has count = spanCount = k + 1 and the k rows below it, the  *)
(* new row included, are its sub rows with count = -offset.                 *)
C3_AppendInside ==
    \A c \in ColumnNames : \A first \in 0..(Len(pre) - 1) : \A spanCount \in 1..Len(pre) :
        AppendedInside(c, first, spanCount) =>
            /\ ~thrown
            /\ RowAt(rawData, first).rowKey = RowAt(pre, first).rowKey
            /\ IsSpan(rawData, c, first, spanCount + 1)

C3_Witness ==
    \E c \in ColumnNames : \E first \in 0..(Len(pre) - 1) : \E spanCount \in 1..Len(pre) :
        /\ AppendedInside(c, first, spanCount)
        /\ last.index > first
        /\ SpanAt(rawData, last.index + 1, c).count = first - last.index - 1

(* The rowSpanMap entries of one column, top to bottom *)
ColumnSpans(data, columnName) ==
    [i \in 1..Len(data) |-> data[i].rowSpanMap[columnName]]

(* prevRow of the last call has no span on the column or ends its span *)
AppendedOutside(columnName) ==
    /\ last.op = "appendRow"
    /\ ~last.flag
    /\ LET prevRowSpan == SpanAt(pre, last.index, columnName) IN
       \/ prevRowSpan = NoSpan
       \/ /\ WellFormed(pre)
          /\ MainIndex(pre, last.index, columnName) + prevRowSpan.spanCount - 1 = last.index

(* C4: an append (extendPrevRowSpan false) after a row that has no span on  *)
(* a column, or is the last row of its span there, changes no entry of that *)
(* column and gives the new row none.                                       *)
C4_AppendOutside ==
    \A c \in ColumnNames :
        AppendedOutside(c) =>
            /\ SpanAt(rawData, last.index + 1, c) = NoSpan
            /\ ColumnSpans(RemoveAt(rawData, last.index + 1), c) = ColumnSpans(pre, c)

C4_Witness ==
    \E c \in ColumnNames :
        /\ AppendedOutside(c)
        /\ SpanAt(pre, last.index, c) # NoSpan
        /\ SpanAt(pre, last.index, c).spanCount >= 2
        /\ Len(rawData) = Len(pre) + 1

(* The append of the last call went in right after the row at offset j of  *)
(* a span of spanCount >= 2 rows headed by the row at index first.          *)
AppendedAfterMember(columnName, first, spanCount) ==
    /\ last.op = "appendRow"
    /\ spanCount >= 2
    /\ first <= last.index
    /\ last.index <= first + spanCount - 1
    /\ IsSpan(pre, columnName, first, spanCount)
    /\ WellFormed(pre)

(* C23: with extendPrevRowSpan, or after the main row, an append makes      *)
(* every span of k >= 2 rows that prevRow is in a span of exactly k + 1     *)
(* rows, the new row one of them, also when prevRow is the span's last row; *)
(* without extendPrevRowSpan, after the sub row at offset j, the span grows *)
(* if and only if j < k - 1, and is otherwise left as it was.               *)
C23_AppendGrows ==
    \A c \in ColumnNames : \A first \in 0..(Len(pre) - 1) : \A spanCount \in 2..Len(pre) :
        AppendedAfterMember(c, first, spanCount) =>
            LET j == last.index - first
                grows == last.flag \/ j = 0 \/ j < spanCount - 1
            IN /\ ~thrown
               /\ RowAt(rawData, first).rowKey = RowAt(pre, first).rowKey
               /\ IF grows
                  THEN /\ IsSpan(rawData, c, first, spanCount + 1)
                       /\ last.index + 1 \in Members(rawData, c, RowAt(pre, first).rowKey)
                  ELSE /\ IsSpan(rawData, c, first, spanCount)
                       /\ SpanAt(rawData, last.index + 1, c) = NoSpan

C23_Witness ==
    \E c \in ColumnNames : \E first \in 0..(Len(pre) - 1) : \E spanCount \in 2..Len(pre) :
        /\ AppendedAfterMember(c, first, spanCount)
        /\ last.flag
        /\ last.index = first + spanCount - 1
        /\ SpanAt(rawData, last.index + 1, c) =
               createRowSpan(FALSE, RowAt(pre, first).rowKey, -spanCount, spanCount + 1)

(* C24: no merge with a single row: in every state reached by appends and  *)
(* removes from a dataset created from any span declarations, every         *)
(* rowSpanMap entry has spanCount >= 2, a main entry has count = spanCount  *)
(* and a sub entry has -(spanCount - 1) <= count <= -1.                     *)
C24_NoSingleRowMerge ==
    \A c \in ColumnNames : \A i \in Spanned(rawData, c) :
        LET rowSpan == SpanAt(rawData, i, c) IN
        /\ rowSpan.spanCount >= 2
        /\ rowSpan.mainRow => rowSpan.count = rowSpan.spanCount
        /\ ~rowSpan.mainRow => (-(rowSpan.spanCount - 1) <= rowSpan.count /\ rowSpan.count <= -1)

(* The last call removed the main row of a span of spanCount rows *)
RemovedMain(columnName, spanCount) ==
    /\ last.op = "removeRow"
    /\ WellFormed(pre)
    /\ IsSpan(pre, columnName, last.index, spanCount)

(* C5: removing the main row of a span of k >= 3 rows makes the next row    *)
(* the main row of the k - 1 rows left (count = spanCount = k - 1, the rest *)
(* its sub rows with count = -offset) and, with keepRowSpanData, gives it   *)
(* the removed row's value for the column.                                  *)
C5_RemoveMain ==
    \A c \in ColumnNames : \A spanCount \in 3..Len(pre) :
        RemovedMain(c, spanCount) =>
            /\ ~thrown
            /\ RowAt(rawData, last.index).rowKey = RowAt(pre, last.index + 1).rowKey
            /\ IsSpan(rawData, c, last.index, spanCount - 1)
            /\ last.flag => RowAt(rawData, last.index).value[c] = RowAt(pre, last.index).value[c]

C5_Witness ==
    \E c \in ColumnNames :
        /\ RemovedMain(c, 3)
        /\ last.flag
        /\ Len(pre) = 3
        /\ RowAt(pre, 0).value[c] # RowAt(pre, 1).value[c]
        /\ RowAt(rawData, 0).value[c] = RowAt(pre, 0).value[c]
        /\ SpanAt(rawData, 0, c).spanCount = 2

(* The last call removed the row at offset `removed` (0: the main row, 1:   *)
(* the sub row) of the two-row span headed by the row at index first.       *)
RemovedFromPair(columnName, first, removed) ==
    /\ last.op = "removeRow"
    /\ WellFormed(pre)
    /\ IsSpan(pre, columnName, first, 2)
    /\ last.index = first + removed

(* C6: removing the main row or the sub row of a span of two rows leaves    *)
(* no entry of that span on any row of the data.                            *)
C6_RemoveFromPair ==
    \A c \in ColumnNames : \A first \in 0..(Len(pre) - 1) : \A removed \in {0, 1} :
        RemovedFromPair(c, first, removed) =>
            /\ ~thrown
            /\ SpanAt(rawData, first, c) = NoSpan
            /\ \A i \in Spanned(rawData, c) :
                   SpanAt(rawData, i, c).mainRowKey \notin
                       {RowAt(pre, first).rowKey, RowAt(pre, first + 1).rowKey}

C6_Witness ==
    \E c \in ColumnNames : \E first \in 0..(Len(pre) - 1) :
        /\ RemovedFromPair(c, first, 1)
        /\ Len(rawData) = Len(pre) - 1

----------------------------------------------------------------------------
(* Claims on the span queries and on focus *)

(* The last call asked for the row range of the one cell (rowIndex, column  *)
(* index) of a span, in natural order, with the focus row null or that row. *)
AskedOneCell(rowIndex, columnIndex) ==
    /\ last.op = "getRowRangeWithRowSpan"
    /\ isRowSpanEnabled(sortState)
    /\ last.rowRange = <<rowIndex, rowIndex>>
    /\ last.colRange = <<columnIndex, columnIndex>>
    /\ last.index \in {NoKey, rowIndex}
    /\ SpanInvariant(rawData)
    /\ SpanAt(rawData, rowIndex, visibleColumns[columnIndex + 1]) # NoSpan

(* C7: on data satisfying the span invariant, getMaxRowSpanRange of the 1x1 *)
(* selection [r, r] x [c, c] on a member r of a span (focus row null or r)  *)
(* is [mainRowIndex, mainRowIndex + spanCount - 1].                         *)
C7_OneCellRange ==
    \A r \in RowIndexes : \A x \in ColumnIndexes :
        AskedOneCell(r, x) =>
            LET c == visibleColumns[x + 1]
                main == MainIndex(rawData, r, c)
            IN /\ ~thrown
               /\ ret = <<main, main + SpanAt(rawData, main, c).spanCount - 1>>

C7_Witness ==
    \E r \in RowIndexes : \E x \in ColumnIndexes :
        /\ AskedOneCell(r, x)
        /\ ~SpanAt(rawData, r, visibleColumns[x + 1]).mainRow
        /\ SpanAt(rawData, r, visibleColumns[x + 1]).spanCount = 3
        /\ ret[1] < r
        /\ ret[2] > r

(* The last call changed focus to a sub row of a span on the column, with   *)
(* spans enabled, and its focusChange event was raised and not stopped.     *)
FocusedSubRow ==
    /\ last.op = "changeFocus"
    /\ ~last.flag
    /\ isRowSpanEnabled(sortState)
    /\ last.columnName # ""
    /\ ~isHiddenColumn(column, last.columnName)
    /\ WellFormed(rawData)
    /\ getRowSpanByRowKey(last.index, last.columnName, rawData) # NoSpan
    /\ ~getRowSpanByRowKey(last.index, last.columnName, rawData).mainRow

(* C8: changeFocus to a sub row of a span on the column, whatever the sub   *)
(* row's key, stores the span's mainRowKey as focus.rowKey and the column   *)
(* as focus.columnName.                                                     *)
C8_FocusMainRow ==
    FocusedSubRow =>
        /\ focus.rowKey = getRowSpanByRowKey(last.index, last.columnName, rawData).mainRowKey
        /\ focus.columnName = last.columnName

(* The last call asked for the top and bottom index of the row's cell *)
AskedIndexes(rowIndex, columnName) ==
    /\ last.op = "getRowSpanIndexes"
    /\ last.index = rowIndex
    /\ last.columnName = columnName

(* C9: on a created dataset getRowSpanTopIndex and getRowSpanBottomIndex of *)
(* a member of a span are the main row's index and that index plus the      *)
(* span's spanCount minus one, the same pair from every member of the span; *)
(* of a row with no span on the column they are the row's own index.        *)
C9_TopBottom ==
    \A r \in RowIndexes : \A c \in ColumnNames :
        AskedIndexes(r, c) =>
            IF SpanAt(rawData, r, c) = NoSpan
            THEN ret = <<r, r>>
            ELSE LET main == MainIndex(rawData, r, c) IN
                 /\ ret = <<main, main + SpanAt(rawData, main, c).spanCount - 1>>
                 /\ \A other \in Members(rawData, c, SpanAt(rawData, r, c).mainRowKey) :
                        ret = <<getRowSpanTopIndex(other, c, rawData),
                                getRowSpanBottomIndex(other, c, rawData)>>

C9_Witness ==
    \E r \in RowIndexes : \E c \in ColumnNames :
        /\ AskedIndexes(r, c)
        /\ SpanAt(rawData, r, c) # NoSpan
        /\ ~SpanAt(rawData, r, c).mainRow
        /\ Cardinality(Members(rawData, c, SpanAt(rawData, r, c).mainRowKey)) = 3
        /\ ret[2] = ret[1] + 2

(* C10: sorted by a column other than sortKey, isRowSpanEnabled is false    *)
(* and getRowRangeWithRowSpan returns the rowRange it was given, whatever   *)
(* the ranges, the focus row and the rowSpanMaps; sorted by sortKey it      *)
(* returns what getMaxRowSpanRange returns.                                 *)
C10_SortedPassThrough ==
    last.op = "getRowRangeWithRowSpan" =>
        IF sortState.columns[1].columnName # "sortKey"
        THEN /\ ~isRowSpanEnabled(sortState)
             /\ ~thrown
             /\ ret = last.rowRange
        ELSE LET max == getMaxRowSpanRange(last.rowRange, last.colRange, last.index, rawData)
             IN /\ isRowSpanEnabled(sortState)
                /\ thrown = max.thrown
                /\ ret = max.range

C10_Witness ==
    /\ last.op = "getRowRangeWithRowSpan"
    /\ sortState.columns[1].columnName # "sortKey"
    /\ ret = last.rowRange
    /\ ~getMaxRowSpanRange(last.rowRange, last.colRange, last.index, rawData).thrown
    /\ getMaxRowSpanRange(last.rowRange, last.colRange, last.index, rawData).range # ret

----------------------------------------------------------------------------
(* Claims on focus and editing *)

(* C11: whenever a cell is being edited, it is the focused cell:           *)
(* editingAddress, when not null, is (focus.rowKey, focus.columnName).      *)
C11_EditingIsFocused ==
    focus.editingAddress # NoAddress =>
        /\ focus.editingAddress.rowKey = focus.rowKey
        /\ focus.editingAddress.columnName = focus.columnName

(* C12: startEditing and saveAndFinishEditing leave every row of the        *)
(* dataset with the rowKey it had before the call.                          *)
C12_RowKeyImmutable ==
    last.op \in {"startEditing", "saveAndFinishEditing"} =>
        /\ Len(rawData) = Len(pre)
        /\ \A i \in 1..Len(rawData) : rawData[i].rowKey = pre[i].rowKey

(* C13: after initFocus every field of the focus store has its empty        *)
(* default, forcedDestroyEditing included.                                  *)
C13_InitFocusResets ==
    last.op = "initFocus" => focus = NoFocus

(* The notifications raised and the fields written by the last call *)
Raised == {log[i].name : i \in {j \in 1..Len(log) : log[j].kind = "trigger"}}

Written == {log[i].name : i \in {j \in 1..Len(log) : log[j].kind = "write"}}

Committed == {i \in 1..Len(log) : log[i].kind = "setValue"}

(* The last call raised its notification and the collaborator stopped it *)
Vetoed ==
    \/ last.op = "changeFocus" /\ last.flag /\ "focusChange" \in Raised
    \/ last.op = "startEditing" /\ last.flag /\ "editingStart" \in Raised
    \/ last.op = "finishEditing" /\ last.flag /\ "editingFinish" \in Raised

(* C14: a changeFocus, startEditing or finishEditing whose notification     *)
(* came back stopped writes nothing: the focus store is as before the call. *)
C14_Veto ==
    Vetoed => Written = {} /\ focus = preFocus

C14_Witness ==
    /\ last.op = "startEditing" /\ last.flag /\ "editingStart" \in Raised
    /\ preFocus.editingAddress # NoAddress
    /\ ~isEditingCell(preFocus, last.index, last.columnName)
    /\ focus = preFocus

(* The last call was made on a satisfied or disallowed target: changeFocus  *)
(* to the focused address or to a hidden column, startEditing on a cell     *)
(* that is not editable, saveAndFinishEditing on an address that is not     *)
(* being edited or whose cell is not editable.                              *)
SilentNoOp ==
    \/ /\ last.op = "changeFocus"
       /\ \/ isFocusedCell(preFocus, last.index, last.columnName)
          \/ last.columnName \in column.hidden
    \/ /\ last.op = "startEditing"
       /\ ~thrown
       /\ last.columnName \notin column.editable
    \/ /\ last.op = "saveAndFinishEditing"
       /\ ~thrown
       /\ \/ ~isEditingCell(preFocus, last.index, last.columnName)
          \/ last.columnName \notin column.editable

FocusChanged ==
    /\ last.op = "changeFocus"
    /\ ~last.flag
    /\ ~isFocusedCell(preFocus, last.index, last.columnName)
    /\ last.columnName \notin column.hidden

(* The place of the write of `name` in the log of the last call, 0 if none *)
WrittenAt(name) ==
    IF name \in Written
    THEN CHOOSE i \in 1..Len(log) : log[i].kind = "write" /\ log[i].name = name
    ELSE 0

(* C19: a changeFocus that goes through writes prevColumnName and           *)
(* prevRowKey before columnName and rowKey, leaves in them the address      *)
(* focused before the call, and leaves editingAddress, navigating and       *)
(* forcedDestroyEditing alone.                                              *)
C19_PrevBeforeAddress ==
    FocusChanged =>
        /\ Written = {"prevColumnName", "prevRowKey", "columnName", "rowKey"}
        /\ \A prev \in {"prevColumnName", "prevRowKey"} :
               \A address \in {"columnName", "rowKey"} :
                   WrittenAt(prev) < WrittenAt(address)
        /\ focus.prevRowKey = preFocus.rowKey
        /\ focus.prevColumnName = preFocus.columnName
        /\ focus.editingAddress = preFocus.editingAddress
        /\ focus.navigating = preFocus.navigating
        /\ focus.forcedDestroyEditing = preFocus.forcedDestroyEditing

C19_Witness ==
    /\ FocusChanged
    /\ preFocus.rowKey # NoKey
    /\ focus.prevRowKey = preFocus.rowKey
    /\ focus.rowKey # preFocus.rowKey
    /\ focus.columnName # preFocus.columnName

(* C20: a finishEditing that is not stopped ends the edit (editingAddress   *)
(* null, navigating true) exactly when its address is the one being edited  *)
(* and changes nothing else; for any other address, or with no edit open,   *)
(* it changes nothing.                                                      *)
C20_FinishEditing ==
    (last.op = "finishEditing" /\ ~last.flag) =>
        focus = IF isEditingCell(preFocus, last.index, last.columnName)
                THEN [preFocus EXCEPT !.editingAddress = NoAddress, !.navigating = TRUE]
                ELSE preFocus

C20_Witness ==
    /\ last.op = "finishEditing" /\ ~last.flag
    /\ isEditingCell(preFocus, last.index, last.columnName)
    /\ focus.editingAddress = NoAddress
    /\ focus.navigating

(* The last call was a saveAndFinishEditing on the address being edited,    *)
(* whose cell is editable.                                                  *)
SavedEditingCell ==
    /\ last.op = "saveAndFinishEditing"
    /\ isEditingCell(preFocus, last.index, last.columnName)
    /\ isCellEditable(pre, column, last.index, last.columnName)

(* The cell values of every row are the ones before the last call *)
ValuesUnchanged ==
    /\ Len(rawData) = Len(pre)
    /\ \A i \in 1..Len(pre) : rawData[i].value = pre[i].value

(* C21: saveAndFinishEditing with no value on the editable cell being       *)
(* edited sets forcedDestroyEditing, clears editingAddress, sets            *)
(* navigating, commits no value (every cell value is unchanged) and raises  *)
(* no editingFinish.                                                        *)
C21_CancelPath ==
    (SavedEditingCell /\ last.value = Undefined) =>
        /\ ~thrown
        /\ focus = [preFocus EXCEPT !.forcedDestroyEditing = TRUE,
                                    !.editingAddress = NoAddress,
                                    !.navigating = TRUE]
        /\ Committed = {}
        /\ ValuesUnchanged
        /\ "editingFinish" \notin Raised

C21_Witness ==
    /\ SavedEditingCell /\ last.value = Undefined
    /\ ~preFocus.forcedDestroyEditing /\ ~preFocus.navigating
    /\ focus.forcedDestroyEditing /\ focus.navigating
    /\ focus.editingAddress = NoAddress

(* The place of the editingFinish notification in the log of the last call, *)
(* 0 if it was not raised.                                                  *)
RaisedAt(name) ==
    IF name \in Raised
    THEN CHOOSE i \in 1..Len(log) : log[i].kind = "trigger" /\ log[i].name = name
    ELSE 0

(* The cell the last call was made on *)
LastCell(data) ==
    RowAt(data, findIndexByRowKey(data, last.index)).value[last.columnName]

(* C22: saveAndFinishEditing with a value on the editable cell being edited *)
(* commits the value to the row first and raises editingFinish after it,    *)
(* the edit still open at both; not stopped, it ends with editingAddress    *)
(* null and navigating true; stopped, editingAddress still holds the        *)
(* address and the committed value stays in the row.                        *)
C22_CommitThenFinish ==
    (SavedEditingCell /\ last.value # Undefined) =>
        /\ ~thrown
        /\ Cardinality(Committed) = 1
        /\ \A i \in Committed :
               /\ log[i].name = last.columnName
               /\ log[i].focus = preFocus
               /\ i < RaisedAt("editingFinish")
               /\ \A j \in 1..Len(log) : log[j].kind = "write" => i < j
        /\ \A j \in 1..Len(log) : log[j].kind = "write" => RaisedAt("editingFinish") < j
        /\ LastCell(rawData) = last.value
        /\ focus = IF last.flag THEN preFocus
                   ELSE [preFocus EXCEPT !.editingAddress = NoAddress, !.navigating = TRUE]

C22_Witness ==
    /\ SavedEditingCell /\ last.value # Undefined /\ last.flag
    /\ isEditingCell(focus, last.index, last.columnName)
    /\ LastCell(pre) # last.value
    /\ LastCell(rawData) = last.value

(* C25: materializing a row does not alter span membership: after          *)
(* startEditing or saveAndFinishEditing the row at every index has the      *)
(* rowSpanMap entries it had before the call.                               *)
C25_MaterializeKeepsSpans ==
    last.op \in {"startEditing", "saveAndFinishEditing"} =>
        /\ Len(rawData) = Len(pre)
        /\ \A i \in 1..Len(rawData) : rawData[i].rowSpanMap = pre[i].rowSpanMap

(* C26: after a changeFocus that modifies the focus store, the focused      *)
(* address differs from the recorded previous one: (rowKey, columnName) is  *)
(* not (prevRowKey, prevColumnName).                                        *)
C26_FocusMoves ==
    (last.op = "changeFocus" /\ focus # preFocus) =>
        <<focus.rowKey, focus.columnName>> # <<focus.prevRowKey, focus.prevColumnName>>

(* C27: in every state reached by startEditing, finishEditing,             *)
(* saveAndFinishEditing, changeFocus and initFocus calls, whatever is       *)
(* stopped, an open edit excludes navigation: when editingAddress is not    *)
(* null, navigating and forcedDestroyEditing are false.                     *)
C27_EditingExcludesNavigating ==
    focus.editingAddress # NoAddress =>
        /\ ~focus.navigating
        /\ ~focus.forcedDestroyEditing

C27_Witness ==
    /\ last.op = "startEditing"
    /\ preFocus.editingAddress = NoAddress
    /\ preFocus.navigating /\ preFocus.forcedDestroyEditing
    /\ focus.editingAddress # NoAddress
    /\ ~focus.navigating /\ ~focus.forcedDestroyEditing

----------------------------------------------------------------------------
(* Claims on the range queries *)

(* The columns of a column range, and the rows of a row range *)
ColumnsOf(colRange) ==
    {visibleColumns[i + 1] : i \in getSortedRange(colRange)[1]..getSortedRange(colRange)[2]}

RowsOf(rowRange) == rowRange[1]..rowRange[2]

(* No span on the columns is partially inside the rows *)
NoSpanCut(rows, columns, data) ==
    \A c \in columns : \A i \in rows :
        SpanAt(data, i, c) # NoSpan =>
            Members(data, c, SpanAt(data, i, c).mainRowKey) \subseteq rows

(* range is the smallest row range around rowRange that cuts no span *)
SmallestUncut(range, rowRange, columns, data) ==
    /\ range[1] <= rowRange[1] /\ rowRange[2] <= range[2]
    /\ range[1] >= 0 /\ range[2] < Len(data)
    /\ NoSpanCut(RowsOf(range), columns, data)
    /\ \A a \in 0..rowRange[1] : \A b \in rowRange[2]..(Len(data) - 1) :
           NoSpanCut(a..b, columns, data) => a <= range[1] /\ range[2] <= b

(* getRowRangeWithRowSpan was asked, spans enabled, for a range given start *)
(* first with no focus row to pin: the result is getRowSpanRange's.         *)
AskedRowSpanRange ==
    /\ last.op = "getRowRangeWithRowSpan"
    /\ isRowSpanEnabled(sortState)
    /\ last.index \in {NoKey, last.rowRange[1]}
    /\ last.rowRange[1] <= last.rowRange[2]
    /\ SpanInvariant(rawData)

(* C17: on data satisfying the span invariant, getRowSpanRange returns the  *)
(* smallest range around [s, e] in which no span of the columns of colRange *)
(* is partially selected.                                                   *)
C17_SmallestUncutRange ==
    AskedRowSpanRange =>
        /\ ~thrown
        /\ SmallestUncut(ret, last.rowRange, ColumnsOf(last.colRange), rawData)

(* The range grew in two passes of the column loop: the first pass alone    *)
(* leaves a span cut.                                                       *)
C17_Witness ==
    /\ AskedRowSpanRange
    /\ LET colRange == getSortedRange(last.colRange)
           pass == RowSpanRangeColumns(colRange[1], colRange[2], last.rowRange[1],
                                       last.rowRange[2], rawData)
       IN /\ pass.range # last.rowRange
          /\ pass.range # ret
    /\ SmallestUncut(ret, last.rowRange, ColumnsOf(last.colRange), rawData)

(* getRowRangeWithRowSpan was asked, spans enabled, with a focus row that   *)
(* differs from the start of the range.                                     *)
AskedPinnedRange ==
    /\ last.op = "getRowRangeWithRowSpan"
    /\ isRowSpanEnabled(sortState)
    /\ last.index # NoKey
    /\ last.index # last.rowRange[1]
    /\ SpanInvariant(rawData)

(* C18: with a focus row that differs from rowRange[0], getMaxRowSpanRange  *)
(* returns the span-expanded range between the focus row and rowRange[1],   *)
(* in the caller's order: start first when rowRange[0] <= rowRange[1], end  *)
(* first when rowRange[0] > rowRange[1].                                    *)
C18_CallerOrder ==
    AskedPinnedRange =>
        /\ ~thrown
        /\ SmallestUncut(getSortedRange(ret), getSortedRange(<<last.index, last.rowRange[2]>>),
                         ColumnsOf(last.colRange), rawData)
        /\ last.rowRange[1] <= last.rowRange[2] => ret[1] <= ret[2]
        /\ last.rowRange[1] > last.rowRange[2] => ret[1] >= ret[2]

----------------------------------------------------------------------------
(* Claims on corrupted span maps *)

(* The entry of the cell, member of a span of two rows or more, names a    *)
(* main row key that no row of data carries.                                *)
MissingMain(data, rowIndex, columnName) ==
    /\ SpanAt(data, rowIndex, columnName) # NoSpan
    /\ SpanAt(data, rowIndex, columnName).spanCount >= 2
    /\ findPropIndex(SpanAt(data, rowIndex, columnName).mainRowKey, data) = -1

(* The last call had to resolve the main row of an entry whose mainRowKey   *)
(* matches no row of the data it was given.                                 *)
ResolvedMissingMain ==
    \/ /\ last.op \in {"getRowSpanIndexes", "getVerticalPosWithRowSpan"}
       /\ MissingMain(pre, last.index, last.columnName)
    \/ /\ last.op = "getRowRangeWithRowSpan"
       /\ last.index = NoKey
       /\ last.rowRange[1] <= last.rowRange[2]
       /\ \E c \in ColumnsOf(last.colRange) :
              \/ MissingMain(pre, last.rowRange[1], c)
              \/ MissingMain(pre, last.rowRange[2], c)
    \/ /\ last.op = "appendRow"
       /\ \E c \in ColumnNames : MissingMain(pre, last.index, c)
    \/ /\ last.op = "removeRow"
       /\ \E c \in ColumnNames :
              /\ ~SpanAt(pre, last.index, c).mainRow
              /\ MissingMain(pre, last.index, c)

(* The rows the last call was given, as the call left them *)
RowsGiven ==
    CASE last.op = "appendRow" -> RemoveAt(rawData, last.index + 1)
      [] last.op = "removeRow" -> InsertAt(rawData, last.index, RowAt(pre, last.index))
      [] OTHER -> rawData

(* C16: an operation that must resolve the main row of an entry whose       *)
(* mainRowKey matches no row ends in an error, returns no index or range    *)
(* and modifies no span entry.                                              *)
C16_FailsLoudly ==
    ResolvedMissingMain =>
        /\ thrown
        /\ ret = NoRange
        /\ \A i \in 0..(Len(pre) - 1) :
               RowAt(RowsGiven, i).rowSpanMap = RowAt(pre, i).rowSpanMap

====
